---- MODULE Spec2Model ----
\* Verification model of agent_smithers.latency_modelling:
\*   - WorkerScaling (example.py): the autoscaling controller with delayed
\*     scale-up and immediate scale-down;
\*   - CelerySimulation (simulation.py): the tick loop over a FIFO message
\*     queue and a resizable worker pool;
\*   - CeleryLatencyModel (celery_model.py): the M/M/c queueing formulas;
\*   - simulate_celery_latency and get_simulation_plot (tools.py): the two
\*     tools around the module-level _latest_simulation.
\* Python names are kept. None is modelled as the empty tuple <<>> and a set
\* optional integer t as <<t>>. Real-valued quantities (service_time, mean wait
\* time, utilization) are exact fractions <<numerator, denominator>>.
EXTENDS Integers, Sequences, FiniteSets, TLC

VARIABLES
    scaler,     \* the WorkerScaling instance: startup_delay, scale_up_time,
                \* target_workers, current_workers
    calls,      \* history: one record per call of the scaling function
    params,     \* SimulationParams: initial_workers, service_time, duration,
                \* worker_scaling_func, log_interval
    arrival_rate,    \* the arrival series handed to CelerySimulation
    pc,              \* "new", "constructed", "done" or "raised"
    error,           \* the exception that ended the constructor or the run
    df,              \* self.df: row i of the table is df[i + 1]
    message_counter, \* self.message_counter
    queue_position,  \* self.queue_position
    message_queue,   \* self.message_queue (front is the head)
    in_progress,     \* self.in_progress
    current_workers, \* self.current_workers
    i,               \* the loop index of run()
    admitted,        \* history: every append to in_progress, in order
    run_no,          \* 1 for the first CelerySimulation built from params, 2
                     \* for the second one built from the same params
    first_df,        \* the table returned by the first run
    attrs,           \* the attributes that exist on the CelerySimulation
    console,         \* the lines printed by self.console, in order
    stats,           \* the outcome of the caller's get_summary_stats() call
    clm,             \* the CeleryLatencyModel instance and the outcome of the
                     \* last method called on it
    tool             \* tools.py: _latest_simulation and the tool calls made

engineVars == <<params, arrival_rate, pc, error, df, message_counter,
                queue_position, message_queue, in_progress, current_workers,
                i, admitted, run_no, first_df, attrs, console, stats>>
vars == <<scaler, calls, params, arrival_rate, pc, error, df, message_counter,
          queue_position, message_queue, in_progress, current_workers, i,
          admitted, run_no, first_df, attrs, console, stats, clm, tool>>

\* ------------------------------------------------------------------ bounds
\* Largest startup_delay a WorkerScaling is constructed with.
MaxDelay == 3
\* Number of successive __call__ invocations explored on a bare WorkerScaling.
MaxCalls == 5

\* Queue lengths handed to a bare WorkerScaling: both sides of each threshold.
QueueLengths == {0, 9, 10, 49, 50}

\* ------------------------------------------------------- WorkerScaling data
None == <<>>
Some(t) == <<t>>

\* example.py:75 default of the startup_delay parameter
DefaultStartupDelay == 20

\* simulation.py:27 default of SimulationParams.log_interval
DefaultLogInterval == 60

\* WorkerScaling.__init__
NewWorkerScaling(startup_delay) ==
    [startup_delay   |-> startup_delay,
     scale_up_time   |-> None,
     target_workers  |-> 10,
     current_workers |-> 10]

\* NewTarget that scales an idle pool down to no workers.
NewTargetIdleZero(queue_length) ==
    IF queue_length >= 50 THEN 45 ELSE IF queue_length >= 10 THEN 30 ELSE 0

\* new_target = 45 if queue_length >= 50 else 30 if queue_length >= 10 else 10
NewTarget(queue_length) ==
    IF queue_length >= 50 THEN 45 ELSE IF queue_length >= 10 THEN 30 ELSE 10

\* Retarget with a scale-down that only lowers the target and waits for the
\* timer, as the scale-up does.
RetargetScaleDownViaTimer(s, new_target, seconds) ==
    IF new_target # s.target_workers
    THEN [s EXCEPT !.scale_up_time =
                       IF s.scale_up_time = None THEN Some(seconds) ELSE @,
                   !.target_workers = new_target]
    ELSE s

\* Retarget with a scale-down that forgets self.current_workers = new_target.
RetargetKeepsWorkers(s, new_target, seconds) ==
    IF new_target > s.target_workers
    THEN [s EXCEPT !.scale_up_time =
                       IF s.scale_up_time = None THEN Some(seconds) ELSE @,
                   !.target_workers = new_target]
    ELSE IF new_target < s.target_workers
    THEN [s EXCEPT !.target_workers = new_target,
                   !.scale_up_time = None]
    ELSE s

\* Retarget that restarts the timer on every increase of the target.
RetargetResetsTimer(s, new_target, seconds) ==
    IF new_target > s.target_workers
    THEN [s EXCEPT !.scale_up_time = Some(seconds),
                   !.target_workers = new_target]
    ELSE IF new_target < s.target_workers
    THEN [s EXCEPT !.target_workers = new_target,
                   !.current_workers = new_target,
                   !.scale_up_time = None]
    ELSE s

\* The if / elif on new_target against self.target_workers.
Retarget(s, new_target, seconds) ==
    IF new_target > s.target_workers
    THEN [s EXCEPT !.scale_up_time =
                       IF s.scale_up_time = None THEN Some(seconds) ELSE @,
                   !.target_workers = new_target]
    ELSE IF new_target < s.target_workers
    THEN [s EXCEPT !.target_workers = new_target,
                   !.current_workers = new_target,
                   !.scale_up_time = None]
    ELSE s

\* CommitScaleUp with > in place of >=.
CommitScaleUpLate(s, seconds) ==
    IF s.scale_up_time # None
       /\ seconds > s.scale_up_time[1] + s.startup_delay
    THEN [s EXCEPT !.current_workers = s.target_workers,
                   !.scale_up_time = None]
    ELSE s

\* CommitScaleUp that does not wait for startup_delay.
CommitScaleUpEarly(s, seconds) ==
    IF s.scale_up_time # None
       /\ seconds >= s.scale_up_time[1]
    THEN [s EXCEPT !.current_workers = s.target_workers,
                   !.scale_up_time = None]
    ELSE s

\* CommitScaleUp that forgets self.scale_up_time = None.
CommitScaleUpKeepsTimer(s, seconds) ==
    IF s.scale_up_time # None
       /\ seconds >= s.scale_up_time[1] + s.startup_delay
    THEN [s EXCEPT !.current_workers = s.target_workers]
    ELSE s

\* "If we're scaling up and enough time has passed".
CommitScaleUp(s, seconds) ==
    IF s.scale_up_time # None
       /\ seconds >= s.scale_up_time[1] + s.startup_delay
    THEN [s EXCEPT !.current_workers = s.target_workers,
                   !.scale_up_time = None]
    ELSE s

\* WorkerScaling.__call__: the instance after the call; the value returned is
\* its current_workers.
WorkerScalingCall(s, queue_length, seconds) ==
    CommitScaleUp(Retarget(s, NewTarget(queue_length), seconds), seconds)

\* The history record of one __call__.
CallRecord(s, queue_length, seconds) ==
    [queue_length |-> queue_length,
     seconds      |-> seconds,
     new_target   |-> NewTarget(queue_length),
     before       |-> s,
     after        |-> WorkerScalingCall(s, queue_length, seconds),
     ret          |-> WorkerScalingCall(s, queue_length, seconds).current_workers]

\* ------------------------------------------------------------ exact fractions
RECURSIVE GCD(_, _)
GCD(a, b) == IF b = 0 THEN a ELSE GCD(b, a % b)

\* The value n / d (d > 0) in lowest terms. Here and in the operators on
\* fractions below each operand is bound to its value once.
Reduce(n, d) == <<n \div GCD(n, d), d \div GCD(n, d)>>
Frac(n, d) == CHOOSE r \in {Reduce(x, y) : x \in {n}, y \in {d}} : TRUE

Zero == Frac(0, 1)

\* ---------------------------------------------------------- CelerySimulation
\* Message(id, arrival_time, queue_position); arrival_time is the number of
\* seconds after the table's first timestamp.
Message(id, arrival_time, pos) ==
    [id |-> id, arrival_time |-> arrival_time, queue_position |-> pos]

\* wait_time measured from the start of the run.
wait_time_since_start(msg, current_time) == current_time
\* Message.wait_time
wait_time(msg, current_time) == current_time - msg.arrival_time

\* The policy installed as params.worker_scaling_func: the WorkerScaling
\* instance `scaler`, or a stateless function of seconds given by a table.
WorkerScalingFunc == [kind |-> "WorkerScaling", table |-> <<>>]
TableFunc(table) == [kind |-> "table", table |-> table]

\* A scaling function whose return value at tick 0 is raised to the
\* initial_workers that __init__ stored in current_workers.
ScalingFuncCallFromInitial(func, s, queue_length, seconds) ==
    IF func.kind = "WorkerScaling"
    THEN [after |-> WorkerScalingCall(s, queue_length, seconds),
          ret   |-> IF seconds = 0
                       /\ current_workers >
                            WorkerScalingCall(s, queue_length,
                                              seconds).current_workers
                    THEN current_workers
                    ELSE WorkerScalingCall(s, queue_length,
                                           seconds).current_workers]
    ELSE [after |-> s,
          ret   |-> IF seconds = 0 /\ current_workers > func.table[seconds + 1]
                    THEN current_workers
                    ELSE func.table[seconds + 1]]

\* params.worker_scaling_func(queue_length, seconds): the policy instance
\* after the call and the value returned.
ScalingFuncCall(func, s, queue_length, seconds) ==
    IF func.kind = "WorkerScaling"
    THEN [after |-> WorkerScalingCall(s, queue_length, seconds),
          ret   |-> WorkerScalingCall(s, queue_length, seconds).current_workers]
    ELSE [after |-> s, ret |-> func.table[seconds + 1]]

\* _validate_inputs: TRUE when it raises ValueError.
ValidateInputsRaises(p, arrivals) == Len(arrivals) # p.duration

\* _initialize_dataframe
InitializeDataframe(p, arrivals) ==
    [t \in 1..p.duration |->
        [timestamp      |-> t - 1,
         arrivals       |-> arrivals[t],
         in_queue       |-> 0,
         in_progress    |-> 0,
         completed      |-> 0,
         min_wait_time  |-> 0,
         mean_wait_time |-> Zero,
         max_wait_time  |-> 0,
         utilization    |-> Zero,
         num_workers    |-> p.initial_workers]]

\* The caller has not called get_summary_stats().
NoStats ==
    [called |-> FALSE, run_done |-> FALSE, rows_done |-> 0, raised |-> "",
     value |-> None]

\* No method of the CeleryLatencyModel has been called.
NoCall == [method |-> "", raised |-> "", value |-> None]

\* The state in which no CeleryLatencyModel exists.
NoModel ==
    [pc |-> "new", error |-> "", num_workers |-> 0, arrival_rate |-> Zero,
     service_time |-> Zero, last |-> NoCall]

\* tools.py at import: _latest_simulation = None and no tool call made.
NoTool ==
    [latest_simulation |-> None, runs |-> 0, log |-> <<>>]

\* Neither the latency model nor the tools are in use.
NoToolsState ==
    /\ clm = NoModel
    /\ tool = NoTool

\* The state in which no CelerySimulation exists.
NoSimulation ==
    /\ params = [initial_workers |-> 0, service_time |-> <<1, 1>>,
                 duration |-> 0, worker_scaling_func |-> WorkerScalingFunc,
                 log_interval |-> DefaultLogInterval]
    /\ arrival_rate = <<>>
    /\ pc = "none"
    /\ error = ""
    /\ df = <<>>
    /\ message_counter = 0
    /\ queue_position = 0
    /\ message_queue = <<>>
    /\ in_progress = <<>>
    /\ current_workers = 0
    /\ i = 0
    /\ admitted = <<>>
    /\ run_no = 0
    /\ first_df = <<>>
    /\ attrs = {}
    /\ console = <<>>
    /\ stats = NoStats

\* The attributes __init__ assigns before and after self._validate_inputs().
AttrsBeforeValidation == {"params", "arrival_rate"}
AttrsAfterValidation ==
    {"df", "message_counter", "message_queue", "in_progress", "console",
     "queue_position", "current_workers"}

\* InitObject with the validation moved to the end of __init__.
InitObjectValidatesLast ==
    IF ValidateInputsRaises(params, arrival_rate)
    THEN /\ pc' = "raised"
         /\ error' = "ValueError"
         /\ attrs' = AttrsBeforeValidation \cup AttrsAfterValidation
         /\ df' = <<>>
         /\ message_counter' = 0
         /\ message_queue' = <<>>
         /\ in_progress' = <<>>
         /\ queue_position' = 0
         /\ current_workers' = params.initial_workers
    ELSE /\ pc' = "constructed"
         /\ error' = ""
         /\ attrs' = AttrsBeforeValidation \cup AttrsAfterValidation
         /\ df' = InitializeDataframe(params, arrival_rate)
         /\ message_counter' = 0
         /\ message_queue' = <<>>
         /\ in_progress' = <<>>
         /\ queue_position' = 0
         /\ current_workers' = params.initial_workers

\* CelerySimulation.__init__ on params and arrival_rate.
InitObject ==
    IF ValidateInputsRaises(params, arrival_rate)
    THEN /\ pc' = "raised"
         /\ error' = "ValueError"
         /\ attrs' = AttrsBeforeValidation
         /\ UNCHANGED <<df, message_counter, queue_position, message_queue,
                        in_progress, current_workers>>
    ELSE /\ pc' = "constructed"
         /\ error' = ""
         /\ attrs' = AttrsBeforeValidation \cup AttrsAfterValidation
         /\ df' = InitializeDataframe(params, arrival_rate)
         /\ message_counter' = 0
         /\ message_queue' = <<>>
         /\ in_progress' = <<>>
         /\ queue_position' = 0
         /\ current_workers' = params.initial_workers

Construct ==
    /\ pc = "new"
    /\ InitObject
    /\ i' = 0
    /\ admitted' = <<>>
    /\ console' = <<>>
    /\ UNCHANGED <<scaler, calls, params, arrival_rate, run_no, first_df,
                   stats, clm, tool>>

\* A second CelerySimulation(params, arrival_rate) built after the first run
\* returned: the same params object, hence the same policy instance.
ConstructAgain ==
    /\ pc = "done"
    /\ run_no = 1
    /\ first_df' = df
    /\ run_no' = 2
    /\ InitObject
    /\ i' = 0
    /\ admitted' = <<>>
    /\ calls' = <<>>
    /\ console' = <<>>
    /\ UNCHANGED <<scaler, params, arrival_rate, stats, clm, tool>>

\* seq[k:] for k >= 0
SliceFrom(seq, k) ==
    IF k >= Len(seq) THEN <<>> ELSE SubSeq(seq, k + 1, Len(seq))

\* int(n / service_time) for a service_time > 0
Completions(n, service_time) == (n * service_time[2]) \div service_time[1]

\* [self._create_message(current_time) for _ in range(new_arrivals)]
NewMessages(new_arrivals, current_time, counter, position) ==
    [k \in 1..new_arrivals |->
        Message(counter + k, current_time, position + k)]

\* The number of iterations that take a message while capacity is left: one
\* per unit of available_capacity, at most one per message.
Taken(available_capacity, n) ==
    IF available_capacity <= 0 THEN 0
    ELSE IF available_capacity < n THEN available_capacity ELSE n

\* ProcessQueue with pop() in place of popleft().
ProcessQueueFromBack(queue, inprog, available_capacity) ==
    [message_queue |->
        SubSeq(queue, 1, Len(queue) - Taken(available_capacity, Len(queue))),
     in_progress |->
        inprog \o [j \in 1..Taken(available_capacity, Len(queue)) |->
                      queue[Len(queue) + 1 - j]],
     available_capacity |->
        available_capacity - Taken(available_capacity, Len(queue))]

\* ProcessQueue that stops while one worker slot is still free.
ProcessQueueLeavesSlot(queue, inprog, available_capacity) ==
    [message_queue |->
        SubSeq(queue, Taken(available_capacity - 1, Len(queue)) + 1,
               Len(queue)),
     in_progress |->
        inprog \o SubSeq(queue, 1, Taken(available_capacity - 1, Len(queue))),
     available_capacity |->
        available_capacity - Taken(available_capacity - 1, Len(queue))]

\* while available_capacity > 0 and self.message_queue: popleft, append,
\* available_capacity -= 1. The loop runs Taken(...) times: the messages it
\* moves are the first that many of the queue, in queue order.
ProcessQueue(queue, inprog, available_capacity) ==
    [message_queue |->
        SubSeq(queue, Taken(available_capacity, Len(queue)) + 1, Len(queue)),
     in_progress |->
        inprog \o SubSeq(queue, 1, Taken(available_capacity, Len(queue))),
     available_capacity |->
        available_capacity - Taken(available_capacity, Len(queue))]

\* ProcessArrivals that sends every new message to the queue.
ProcessArrivalsAllQueued(new_messages, st) ==
    [st EXCEPT !.message_queue = @ \o new_messages]

\* for msg in new_messages: to in_progress while capacity is left, else to
\* the back of the queue. The first Taken(...) messages find capacity, each
\* taking one unit of it; the others are queued in arrival order.
ProcessArrivals(new_messages, st) ==
    [message_queue |->
        st.message_queue
        \o SubSeq(new_messages,
                  Taken(st.available_capacity, Len(new_messages)) + 1,
                  Len(new_messages)),
     in_progress |->
        st.in_progress
        \o SubSeq(new_messages, 1,
                  Taken(st.available_capacity, Len(new_messages))),
     available_capacity |->
        st.available_capacity
        - Taken(st.available_capacity, Len(new_messages))]

RECURSIVE SumSeq(_)
\* sum() of a sequence whose value is at hand: the sum of its two halves.
SumHalves(s) ==
    IF s = <<>> THEN 0
    ELSE IF Len(s) = 1 THEN s[1]
    ELSE SumSeq(SubSeq(s, 1, Len(s) \div 2))
         + SumSeq(SubSeq(s, Len(s) \div 2 + 1, Len(s)))

\* sum(seq); the operand is bound to its value once.
SumSeq(seq) == CHOOSE r \in {SumHalves(s) : s \in {seq}} : TRUE

SeqMin(seq) == CHOOSE x \in {seq[k] : k \in DOMAIN seq} :
                  \A y \in {seq[k] : k \in DOMAIN seq} : x <= y
SeqMax(seq) == CHOOSE x \in {seq[k] : k \in DOMAIN seq} :
                  \A y \in {seq[k] : k \in DOMAIN seq} : x >= y

\* The wait-time columns of the row: min, mean, max over the queued messages.
WaitMetrics(row, queue, current_time) ==
    LET current_wait_times ==
            [k \in DOMAIN queue |-> wait_time(queue[k], current_time)]
    IN  IF Len(queue) > 0
        THEN [row EXCEPT
                !.min_wait_time = SeqMin(current_wait_times),
                !.mean_wait_time = Frac(SumSeq(current_wait_times),
                                        Len(current_wait_times)),
                !.max_wait_time = SeqMax(current_wait_times)]
        ELSE [row EXCEPT !.min_wait_time = 0, !.mean_wait_time = Zero,
                         !.max_wait_time = 0]

\* CountMetrics without the assignment of num_workers.
CountMetricsKeepsWorkers(row, queue, inprog, completed, workers) ==
    [row EXCEPT !.in_queue = Len(queue),
                !.in_progress = Len(inprog),
                !.completed = completed]

\* The count columns of the row ("Update DataFrame", before utilization).
CountMetrics(row, queue, inprog, completed, workers) ==
    [row EXCEPT !.in_queue = Len(queue),
                !.in_progress = Len(inprog),
                !.completed = completed,
                !.num_workers = workers]

\* i % self.params.log_interval == 0; with log_interval = 0 the expression
\* raises ZeroDivisionError, which Tick models where it is evaluated.
LogsAt(tick, log_interval) == log_interval # 0 /\ tick % log_interval = 0

\* The "Processing message ..." lines of one tick, one per popped message.
ProcessingLines(popped, current_time) ==
    [k \in DOMAIN popped |->
        <<"Processing message", popped[k].id, popped[k].queue_position,
          wait_time(popped[k], current_time)>>]

\* The "Time: ... Queue: ... Processing: ... Completed: ..." line of one tick.
MetricsLine(current_time, queue, inprog, table) ==
    <<"Time", current_time, Len(queue), Len(inprog),
      SumSeq([t \in DOMAIN table |-> table[t].completed])>>

\* One iteration of the loop of run(), for loop index i.
Tick ==
    /\ pc = "constructed"
    /\ i < Len(df)
    /\ LET current_time == df[i + 1].timestamp
           call == ScalingFuncCall(params.worker_scaling_func, scaler,
                                   Len(message_queue), i)
           workers == call.ret
           completions == Completions(Len(in_progress), params.service_time)
           remaining == IF i > 0 THEN SliceFrom(in_progress, completions)
                        ELSE in_progress
           new_arrivals == df[i + 1].arrivals
           new_messages == NewMessages(new_arrivals, current_time,
                                       message_counter, queue_position)
           fromQueue == ProcessQueue(message_queue, remaining,
                                     workers - Len(remaining))
           popped == SubSeq(message_queue, 1,
                            Len(message_queue) - Len(fromQueue.message_queue))
           placed == ProcessArrivals(new_messages, fromQueue)
           row == CountMetrics(
                     WaitMetrics(df[i + 1], placed.message_queue, current_time),
                     placed.message_queue, placed.in_progress,
                     IF i > 0 THEN completions ELSE 0, workers)
           fullRow == [row EXCEPT !.utilization =
                                     Frac(Len(placed.in_progress), workers)]
           logs == LogsAt(i, params.log_interval)
           processingLines == IF logs
                              THEN ProcessingLines(popped, current_time)
                              ELSE <<>>
       IN  /\ scaler' = call.after
           /\ calls' = Append(calls,
                  [queue_length |-> Len(message_queue), seconds |-> i,
                   new_target |-> NewTarget(Len(message_queue)),
                   before |-> scaler, after |-> call.after, ret |-> call.ret])
           /\ current_workers' = workers
           /\ IF i > 0 /\ params.service_time[1] = 0
              THEN \* len(self.in_progress) / self.params.service_time raises
                   /\ pc' = "raised"
                   /\ error' = "ZeroDivisionError"
                   /\ UNCHANGED <<df, message_counter, queue_position,
                                  message_queue, in_progress, i, admitted,
                                  console>>
              ELSE /\ message_counter' = message_counter + new_arrivals
                   /\ queue_position' = queue_position + new_arrivals
                   /\ IF params.log_interval = 0 /\ popped # <<>>
                      THEN \* i % self.params.log_interval raises after the
                           \* first pop
                           /\ message_queue' = Tail(message_queue)
                           /\ in_progress' =
                                 Append(remaining, Head(message_queue))
                           /\ admitted' = Append(admitted,
                                 [msg |-> Head(message_queue), tick |-> i])
                           /\ pc' = "raised"
                           /\ error' = "ZeroDivisionError"
                           /\ UNCHANGED <<df, i, console>>
                      ELSE /\ message_queue' = placed.message_queue
                           /\ in_progress' = placed.in_progress
                           /\ admitted' = admitted \o
                                 [k \in 1..(Len(placed.in_progress)
                                              - Len(remaining)) |->
                                    [msg |-> placed.in_progress[
                                                Len(remaining) + k],
                                     tick |-> i]]
                           /\ IF workers = 0
                              THEN \* len(self.in_progress) /
                                   \* self.current_workers raises
                                   /\ df' = [df EXCEPT ![i + 1] = row]
                                   /\ pc' = "raised"
                                   /\ error' = "ZeroDivisionError"
                                   /\ i' = i
                                   /\ console' = console \o processingLines
                              ELSE IF params.log_interval = 0
                              THEN \* i % self.params.log_interval raises
                                   \* after the row is written
                                   /\ df' = [df EXCEPT ![i + 1] = fullRow]
                                   /\ pc' = "raised"
                                   /\ error' = "ZeroDivisionError"
                                   /\ i' = i
                                   /\ console' = console
                              ELSE /\ df' = [df EXCEPT ![i + 1] = fullRow]
                                   /\ i' = i + 1
                                   /\ console' =
                                        console \o processingLines \o
                                        (IF logs
                                         THEN <<MetricsLine(current_time,
                                                  placed.message_queue,
                                                  placed.in_progress,
                                                  [df EXCEPT ![i + 1] =
                                                      fullRow])>>
                                         ELSE <<>>)
                                   /\ UNCHANGED <<pc, error>>
    /\ UNCHANGED <<params, arrival_rate, run_no, first_df, attrs, stats, clm,
                   tool>>

\* The loop of run() is over: run() returns self.df.
Return ==
    /\ pc = "constructed"
    /\ i = Len(df)
    /\ pc' = "done"
    /\ console' = Append(console, <<"Simulation completed", message_counter>>)
    /\ UNCHANGED <<scaler, calls, params, arrival_rate, error, df,
                   message_counter, queue_position, message_queue, in_progress,
                   current_workers, i, admitted, run_no, first_df, attrs,
                   stats, clm, tool>>

\* ------------------------------------------------------ get_summary_stats
\* The columns _initialize_dataframe creates.
DataframeColumns ==
    {"timestamp", "arrivals", "in_queue", "in_progress", "completed",
     "min_wait_time", "mean_wait_time", "max_wait_time", "utilization",
     "num_workers"}

\* The wait-time column read through a name the table has.
WaitTimeColumnPresent == "mean_wait_time"

\* The column get_summary_stats reads for mean_wait_time and max_wait_time.
WaitTimeColumn == "queue_wait_time"

\* self.df[name] as a sequence
Column(table, name) == [t \in DOMAIN table |-> table[t][name]]

\* Sum, mean and max of a non-empty sequence of fractions.
FracAdd(a, b) ==
    CHOOSE r \in {Reduce(x[1] * y[2] + y[1] * x[2], x[2] * y[2]) :
                     x \in {a}, y \in {b}} : TRUE
RECURSIVE FracSum(_)
FracSum(seq) ==
    IF seq = <<>> THEN Zero ELSE FracAdd(Head(seq), FracSum(Tail(seq)))
FracMean(seq) == Frac(FracSum(seq)[1], FracSum(seq)[2] * Len(seq))
FracMax(seq) ==
    CHOOSE x \in {seq[k] : k \in DOMAIN seq} :
        \A y \in {seq[k] : k \in DOMAIN seq} : x[1] * y[2] >= y[1] * x[2]

\* get_summary_stats on a table: the exception it raises ("" for none) and
\* the dict it returns.
SummaryStats(table) ==
    IF WaitTimeColumn \notin DataframeColumns
    THEN [raised |-> "KeyError", value |-> None]
    ELSE [raised |-> "",
          value |->
            [mean_queue_length |-> Frac(SumSeq(Column(table, "in_queue")),
                                        Len(table)),
             max_queue_length |-> SeqMax(Column(table, "in_queue")),
             mean_utilization |-> FracMean(Column(table, "utilization")),
             peak_utilization |-> FracMax(Column(table, "utilization")),
             total_completed |-> SumSeq(Column(table, "completed")),
             mean_wait_time |-> FracMean(Column(table, WaitTimeColumn)),
             max_wait_time |-> FracMax(Column(table, WaitTimeColumn))]]

\* The caller calls simulation.get_summary_stats() while run() is not
\* executing: before run(), after run() returned, or after run() raised. An
\* exception it raises ends the caller's use of the simulation.
GetSummaryStats ==
    /\ \/ pc = "constructed" /\ i = 0
       \/ pc = "done"
       \/ pc = "raised" /\ error = "ZeroDivisionError"
    /\ stats' = [called |-> TRUE,
                 run_done |-> pc = "done",
                 rows_done |-> i,
                 raised |-> SummaryStats(df).raised,
                 value |-> SummaryStats(df).value]
    /\ IF SummaryStats(df).raised # ""
       THEN /\ pc' = "raised"
            /\ error' = SummaryStats(df).raised
       ELSE UNCHANGED <<pc, error>>
    /\ UNCHANGED <<scaler, calls, params, arrival_rate, df, message_counter,
                   queue_position, message_queue, in_progress,
                   current_workers, i, admitted, run_no, first_df, attrs,
                   console, clm, tool>>

\* ------------------------------------------------------------------- inputs
\* Longest run explored.
MaxDuration == 4

\* service_time values: 0, 1/2, 1, 3/2, 3 (exactly representable as floats).
ServiceTimes == {<<0, 1>>, <<1, 2>>, <<1, 1>>, <<3, 2>>, <<3, 1>>}
\* Per-tick arrival counts under WorkerScaling: none, past the first
\* threshold, past the second threshold.
BurstArrivals == {0, 12, 60}
\* Per-tick arrival counts and worker counts under a table policy.
SmallArrivals == {0, 3}
WorkerCounts == {0, 1, 2}
InitialWorkers == {2}

\* The caller's inputs: params (with its scaling function) and arrival_rate.
Inputs(durations, serviceTimes, logIntervals) ==
    \E duration \in durations, service_time \in serviceTimes,
       initial_workers \in InitialWorkers, log_interval \in logIntervals :
      \E n \in {duration, duration - 1} :
        \/ \E d \in 0..MaxDelay :
             /\ scaler = NewWorkerScaling(d)
             /\ params = [initial_workers |-> initial_workers,
                          service_time |-> service_time,
                          duration |-> duration,
                          worker_scaling_func |-> WorkerScalingFunc,
                          log_interval |-> log_interval]
             /\ arrival_rate \in [1..n -> BurstArrivals]
        \/ \E table \in [1..duration -> WorkerCounts] :
             /\ scaler = NewWorkerScaling(0)
             /\ params = [initial_workers |-> initial_workers,
                          service_time |-> service_time,
                          duration |-> duration,
                          worker_scaling_func |-> TableFunc(table),
                          log_interval |-> log_interval]
             /\ arrival_rate \in [1..n -> SmallArrivals]

\* Before CelerySimulation(params, arrival_rate) is called: no attribute of
\* the object exists yet.
NotConstructed ==
    /\ calls = <<>>
    /\ pc = "new"
    /\ error = ""
    /\ df = <<>>
    /\ message_counter = 0
    /\ queue_position = 0
    /\ message_queue = <<>>
    /\ in_progress = <<>>
    /\ current_workers = 0
    /\ i = 0
    /\ admitted = <<>>
    /\ run_no = 1
    /\ first_df = <<>>
    /\ attrs = {}
    /\ console = <<>>
    /\ stats = NoStats

Init ==
    /\ Inputs(1..MaxDuration, ServiceTimes, {DefaultLogInterval})
    /\ NotConstructed
    /\ NoToolsState

Next == Construct \/ Tick \/ Return \/ ConstructAgain \/ GetSummaryStats

Spec == Init /\ [][Next]_vars

\* ------------------------------------------------ runs that differ only in
\* log_interval: after the first run returned, a second CelerySimulation is
\* built from equal inputs (a policy in its initial state included) except
\* for params.log_interval.
LogIntervals == {0, 1, 2}

ConstructWithLogInterval ==
    /\ pc = "done"
    /\ run_no = 1
    /\ \E log_interval \in LogIntervals \ {params.log_interval} :
         params' = [params EXCEPT !.log_interval = log_interval]
    /\ scaler' = NewWorkerScaling(scaler.startup_delay)
    /\ first_df' = df
    /\ run_no' = 2
    /\ InitObject
    /\ i' = 0
    /\ admitted' = <<>>
    /\ calls' = <<>>
    /\ console' = <<>>
    /\ UNCHANGED <<arrival_rate, stats, clm, tool>>

InitLog ==
    /\ Inputs(1..(MaxDuration - 1), {<<1, 1>>, <<3, 2>>}, LogIntervals)
    /\ NotConstructed
    /\ NoToolsState

NextLog == Construct \/ Tick \/ Return \/ ConstructWithLogInterval

SpecLog == InitLog /\ [][NextLog]_vars

\* ------------------------------------------------ runs that differ only in
\* initial_workers: after the first run returned, the caller prepares equal
\* inputs (a policy in its initial state included) except for
\* params.initial_workers, and a second CelerySimulation is constructed from
\* them and run.
OtherInitialWorkers == {0, 1, 10, 45}

ParamsWithInitialWorkers ==
    /\ pc = "done"
    /\ run_no = 1
    /\ \E initial_workers \in OtherInitialWorkers \ {params.initial_workers} :
         params' = [params EXCEPT !.initial_workers = initial_workers]
    /\ scaler' = NewWorkerScaling(scaler.startup_delay)
    /\ first_df' = df
    /\ run_no' = 2
    /\ pc' = "new"
    /\ error' = ""
    /\ df' = <<>>
    /\ message_counter' = 0
    /\ queue_position' = 0
    /\ message_queue' = <<>>
    /\ in_progress' = <<>>
    /\ current_workers' = 0
    /\ i' = 0
    /\ admitted' = <<>>
    /\ attrs' = {}
    /\ calls' = <<>>
    /\ console' = <<>>
    /\ UNCHANGED <<arrival_rate, stats, clm, tool>>

InitWorkers ==
    /\ Inputs(1..(MaxDuration - 1), {<<1, 1>>, <<3, 2>>}, {DefaultLogInterval})
    /\ NotConstructed
    /\ NoToolsState

NextWorkers == Construct \/ Tick \/ Return \/ ParamsWithInitialWorkers

SpecWorkers == InitWorkers /\ [][NextWorkers]_vars

\* ---------------------------------------------- a bare WorkerScaling, called
\* once per tick with seconds = 0, 1, 2, ... as CelerySimulation.run calls it.
InitScaling ==
    /\ \E d \in 0..MaxDelay : scaler = NewWorkerScaling(d)
    /\ calls = <<>>
    /\ NoSimulation
    /\ NoToolsState

CallScaling ==
    /\ Len(calls) < MaxCalls
    /\ \E queue_length \in QueueLengths :
         /\ scaler' = WorkerScalingCall(scaler, queue_length, Len(calls))
         /\ calls' = Append(calls, CallRecord(scaler, queue_length, Len(calls)))
    /\ UNCHANGED engineVars
    /\ UNCHANGED <<clm, tool>>

NextScaling == CallScaling

SpecScaling == InitScaling /\ [][NextScaling]_vars

\* ----------------------------------------------------- scenario D (policy)
\* WorkerScaling(startup_delay=20) called once per tick for ticks 0..25: a
\* queue length below 10 on ticks 0..4, then 60.
ScenarioDQueueLengths(t) == IF t < 5 THEN {0, 5, 9} ELSE {60}

InitD ==
    /\ scaler = NewWorkerScaling(DefaultStartupDelay)
    /\ calls = <<>>
    /\ NoSimulation
    /\ NoToolsState

CallD ==
    /\ Len(calls) <= 25
    /\ \E queue_length \in ScenarioDQueueLengths(Len(calls)) :
         /\ scaler' = WorkerScalingCall(scaler, queue_length, Len(calls))
         /\ calls' = Append(calls, CallRecord(scaler, queue_length, Len(calls)))
    /\ UNCHANGED engineVars
    /\ UNCHANGED <<clm, tool>>

NextD == CallD

SpecD == InitD /\ [][NextD]_vars

\* ----------------------------------------------------- scenario C (engine)
ScenarioCArrivals == <<5, 0, 0, 0, 0, 0, 0, 0, 0, 0>>
ScenarioCRows ==
    <<<<3, 2, 0>>, <<1, 2, 2>>, <<0, 1, 2>>, <<0, 0, 1>>, <<0, 0, 0>>,
      <<0, 0, 0>>, <<0, 0, 0>>, <<0, 0, 0>>, <<0, 0, 0>>, <<0, 0, 0>>>>

\* Largest single burst of the runs explored around scenario C.
MaxBurst == 5

\* Runs as long as scenario C, with one burst of arrivals at one tick and a
\* scaling function that returns the same worker count at every tick.
InitC ==
    /\ \E tick \in 1..Len(ScenarioCArrivals), burst \in 1..MaxBurst,
          workers \in 1..3, service_time \in ServiceTimes :
       \E initial_workers \in {0, workers} :
         /\ arrival_rate = [t \in 1..Len(ScenarioCArrivals) |->
                               IF t = tick THEN burst ELSE 0]
         /\ params = [initial_workers |-> initial_workers,
                      service_time |-> service_time,
                      duration |-> Len(ScenarioCArrivals),
                      worker_scaling_func |->
                          TableFunc([t \in 1..Len(ScenarioCArrivals) |-> workers]),
                      log_interval |-> DefaultLogInterval]
    /\ scaler = NewWorkerScaling(0)
    /\ NotConstructed
    /\ NoToolsState

SpecC == InitC /\ [][Next]_vars

\* ------------------------------------------------- runs that end with a
\* stretch of ticks without arrivals: one burst early in the run, a scaling
\* function that returns the same positive worker count at every tick and a
\* positive service_time. run() is a loop that is never suspended: every
\* step that can be taken is taken.
DrainTicks == 8
DrainBurstTicks == {1, 2}

InitDrain ==
    /\ \E tick \in DrainBurstTicks, burst \in 1..MaxBurst,
          workers \in 1..3, service_time \in ServiceTimes \ {Zero} :
         /\ arrival_rate = [t \in 1..DrainTicks |->
                               IF t = tick THEN burst ELSE 0]
         /\ params = [initial_workers |-> workers,
                      service_time |-> service_time,
                      duration |-> DrainTicks,
                      worker_scaling_func |->
                          TableFunc([t \in 1..DrainTicks |-> workers]),
                      log_interval |-> DefaultLogInterval]
    /\ scaler = NewWorkerScaling(0)
    /\ NotConstructed
    /\ NoToolsState

NextDrain == Construct \/ Tick \/ Return

SpecDrain ==
    /\ InitDrain
    /\ [][NextDrain]_vars
    /\ WF_vars(Construct) /\ WF_vars(Tick) /\ WF_vars(Return)

\* --------------------------------------------------- CeleryLatencyModel
\* Largest num_workers a CeleryLatencyModel is constructed with.
MaxWorkers == 3

One == Frac(1, 1)
FracInt(n) == Frac(n, 1)
FracMul(a, b) ==
    CHOOSE r \in {Reduce(x[1] * y[1], x[2] * y[2]) :
                     x \in {a}, y \in {b}} : TRUE
FracSub(a, b) ==
    CHOOSE r \in {Reduce(x[1] * y[2] - y[1] * x[2], x[2] * y[2]) :
                     x \in {a}, y \in {b}} : TRUE
\* a / b for b # 0; the denominator of the result is positive.
FracDiv(a, b) ==
    CHOOSE r \in {IF y[1] < 0 THEN Reduce(-(x[1] * y[2]), x[2] * (-y[1]))
                  ELSE Reduce(x[1] * y[2], x[2] * y[1]) :
                     x \in {a}, y \in {b}} : TRUE
FracLess(a, b) == \E x \in {a}, y \in {b} : x[1] * y[2] < y[1] * x[2]
RECURSIVE FracPow(_, _)
FracPow(a, n) == IF n = 0 THEN One ELSE FracMul(a, FracPow(a, n - 1))
RECURSIVE Factorial(_)
Factorial(n) == IF n = 0 THEN 1 ELSE n * Factorial(n - 1)

\* The outcome of a method call: a returned value, a returned None, or an
\* exception.
Returns(v) == [raised |-> "", value |-> Some(v)]
ReturnsNone == [raised |-> "", value |-> None]
Raises(e) == [raised |-> e, value |-> None]

\* _validate_inputs without the check of arrival_rate.
ModelValidateInputsAnyRate(m) ==
    \/ m.num_workers <= 0
    \/ m.service_time[1] <= 0

\* _validate_inputs
ModelValidateInputsRaises(m) ==
    \/ m.num_workers <= 0
    \/ m.arrival_rate[1] < 0
    \/ m.service_time[1] <= 0

\* utilization: arrival_rate / (service_rate * num_workers)
Utilization(m) ==
    LET service_rate == FracDiv(One, m.service_time)
    IN  FracDiv(m.arrival_rate, FracMul(service_rate, FracInt(m.num_workers)))

\* is_stable with utilization <= 1.
IsStableInclusive(m) == ~FracLess(One, Utilization(m))
\* is_stable
IsStable(m) == FracLess(Utilization(m), One)

\* sum((lambda_mu**n) / math.factorial(n) for n in range(c))
RECURSIVE SumTerm(_, _)
SumTerm(lambda_mu, c) ==
    IF c = 0 THEN Zero
    ELSE FracAdd(SumTerm(lambda_mu, c - 1),
                 FracDiv(FracPow(lambda_mu, c - 1), FracInt(Factorial(c - 1))))

\* _calculate_p0, from the values of its locals
P0From(c, rho, lambda_mu, sum_term) ==
    LET last_den == FracMul(FracInt(Factorial(c)), FracSub(One, rho))
    IN  IF last_den[1] = 0 THEN Raises("ZeroDivisionError")
        ELSE LET last_term == FracDiv(FracPow(lambda_mu, c), last_den)
             IN  IF FracAdd(sum_term, last_term)[1] = 0
                 THEN Raises("ZeroDivisionError")
                 ELSE Returns(FracDiv(One, FracAdd(sum_term, last_term)))

\* _calculate_p0
CalculateP0(m) ==
    CHOOSE r \in {P0From(m.num_workers, rho, lambda_mu,
                         SumTerm(lambda_mu, m.num_workers)) :
                     rho \in {Utilization(m)},
                     lambda_mu \in {FracMul(m.arrival_rate, m.service_time)}} :
        TRUE

\* The Erlang C formula of average_queue_length, from the values of its
\* locals.
LqFrom(c, rho, p0, lambda_mu) ==
    LET den == FracMul(FracMul(FracInt(c), FracPow(FracSub(One, rho), 2)),
                       FracInt(Factorial(c)))
    IN  IF p0.raised # "" THEN p0
        ELSE IF den[1] = 0 THEN Raises("ZeroDivisionError")
        ELSE Returns(FracDiv(FracMul(FracMul(p0.value[1],
                                             FracPow(lambda_mu, c)), rho),
                             den))

\* average_queue_length past its stability check.
ErlangC(m) ==
    CHOOSE r \in {LqFrom(m.num_workers, rho, p0, lambda_mu) :
                     rho \in {Utilization(m)},
                     p0 \in {CalculateP0(m)},
                     lambda_mu \in {FracMul(m.arrival_rate, m.service_time)}} :
        TRUE

\* average_queue_length without its stability check.
AverageQueueLengthUnchecked(m) == ErlangC(m)
\* average_queue_length
AverageQueueLength(m) ==
    IF ~IsStable(m) THEN ReturnsNone ELSE ErlangC(m)

\* average_waiting_time past its stability check, from the value of lq
WaitingTimeFrom(m, lq) ==
    IF lq.raised # "" THEN lq
    ELSE IF lq.value = None THEN ReturnsNone
    ELSE IF m.arrival_rate[1] = 0 THEN Raises("ZeroDivisionError")
    ELSE Returns(FracDiv(lq.value[1], m.arrival_rate))

\* average_waiting_time
AverageWaitingTime(m) ==
    IF ~IsStable(m) THEN ReturnsNone
    ELSE CHOOSE r \in {WaitingTimeFrom(m, lq) :
                          lq \in {AverageQueueLength(m)}} : TRUE

\* average_total_time, from the value of its local
TotalTimeFrom(m, wait) ==
    IF wait.raised # "" THEN wait
    ELSE IF wait.value = None THEN ReturnsNone
    ELSE Returns(FracAdd(wait.value[1], m.service_time))

\* average_total_time
AverageTotalTime(m) ==
    CHOOSE r \in {TotalTimeFrom(m, wait) : wait \in {AverageWaitingTime(m)}} :
        TRUE

\* max_throughput
MaxThroughput(m) == FracDiv(FracInt(m.num_workers), m.service_time)

\* math.ceil of a fraction with a positive denominator.
Ceil(a) == -((-a[1]) \div a[2])

\* _get_stability_explanation: the numbers it formats into the message.
StabilityExplanation(m) ==
    LET current_load == FracMul(m.arrival_rate, m.service_time)
        max_capacity == m.num_workers
        overflow == FracSub(current_load, FracInt(max_capacity))
    IN  [current_load |-> current_load,
         max_capacity |-> max_capacity,
         additional_workers |-> Ceil(FracDiv(overflow, m.service_time)),
         reduce_by |-> FracSub(m.arrival_rate, MaxThroughput(m))]

\* The rows print_metrics adds for a stable model, from the values of its
\* locals; the first exception among them ends it.
StableMetrics(wait, total, queue_length) ==
    IF wait.raised # "" THEN wait
    ELSE IF total.raised # "" THEN total
    ELSE IF queue_length.raised # "" THEN queue_length
    ELSE Returns([queue_length |-> queue_length.value,
                  wait_time |-> wait.value,
                  total_time |-> total.value])

\* print_metrics: what it prints below the fixed rows, or the exception that
\* ends it.
PrintMetricsCall(m) ==
    IF IsStable(m)
    THEN CHOOSE r \in {StableMetrics(wait, total, queue_length) :
                          wait \in {AverageWaitingTime(m)},
                          total \in {AverageTotalTime(m)},
                          queue_length \in {AverageQueueLength(m)}} : TRUE
    ELSE Returns(StabilityExplanation(m))

ModelMethods ==
    {"is_stable", "average_queue_length", "average_waiting_time",
     "average_total_time"}

\* The outcome of calling the method on the model.
ModelCall(m, method) ==
    IF method = "is_stable" THEN Returns(IsStable(m))
    ELSE IF method = "average_queue_length" THEN AverageQueueLength(m)
    ELSE IF method = "average_waiting_time" THEN AverageWaitingTime(m)
    ELSE AverageTotalTime(m)

\* The arguments a CeleryLatencyModel is constructed with.
NumWorkers == (-1)..MaxWorkers
ArrivalRates ==
    {<<-1, 1>>, <<0, 1>>, <<1, 2>>, <<1, 1>>, <<3, 2>>, <<2, 1>>, <<3, 1>>,
     <<4, 1>>}
ModelServiceTimes == {<<-1, 1>>, <<0, 1>>, <<1, 2>>, <<1, 1>>, <<3, 2>>, <<2, 1>>}

\* CeleryLatencyModel(num_workers, arrival_rate, service_time): __post_init__
ConstructModel ==
    /\ clm.pc = "new"
    /\ clm' = IF ModelValidateInputsRaises(clm)
              THEN [clm EXCEPT !.pc = "raised", !.error = "ValueError"]
              ELSE [clm EXCEPT !.pc = "constructed"]
    /\ UNCHANGED <<scaler, calls, tool>>
    /\ UNCHANGED engineVars

\* One call of a property or method on the constructed model.
CallModel ==
    /\ clm.pc = "constructed"
    /\ \E method \in ModelMethods :
         \E result \in {ModelCall(clm, method)} :
            clm' = [clm EXCEPT !.last = [method |-> method,
                                         raised |-> result.raised,
                                         value |-> result.value]]
    /\ UNCHANGED <<scaler, calls, tool>>
    /\ UNCHANGED engineVars

\* print_metrics() on the constructed model.
PrintMetrics ==
    /\ clm.pc = "constructed"
    /\ \E result \in {PrintMetricsCall(clm)} :
         clm' = [clm EXCEPT !.last = [method |-> "print_metrics",
                                      raised |-> result.raised,
                                      value |-> result.value]]
    /\ UNCHANGED <<scaler, calls, tool>>
    /\ UNCHANGED engineVars

InitModel ==
    /\ \E num_workers \in NumWorkers, rate \in ArrivalRates,
          service_time \in ModelServiceTimes :
         clm = [NoModel EXCEPT !.num_workers = num_workers,
                               !.arrival_rate = rate,
                               !.service_time = service_time]
    /\ tool = NoTool
    /\ scaler = NewWorkerScaling(DefaultStartupDelay)
    /\ calls = <<>>
    /\ NoSimulation

NextModel == ConstructModel \/ CallModel \/ PrintMetrics

SpecModel == InitModel /\ [][NextModel]_vars

\* ------------------------------------------------------------- tools.py
\* Number of tool calls the two callers make in total.
MaxToolCalls == 3

\* The sessions that call the tools.
Callers == {"a", "b"}
\* Arguments of simulate_celery_latency that decide how its run ends.
ToolServiceTimes == {0, 1}
ToolDurations == {1, 2}

\* len(traffic) for generate_spiky_traffic(duration_seconds=duration, ...):
\* the active period followed by a silent period of the same length.
TrafficLength(duration) == duration * 2

\* simulation.run() inside simulate_celery_latency: the policy is a fresh
\* WorkerScaling (at least 10 workers at every tick) and log_interval is the
\* default, so the run raises only in the completions division at tick 1.
ToolRunRaises(service_time, duration) ==
    service_time = 0 /\ TrafficLength(duration) > 1

\* The caller's own most recent run that was stored for plotting.
RECURSIVE OwnLatest(_, _)
OwnLatest(log, caller) ==
    IF log = <<>> THEN None
    ELSE IF /\ log[Len(log)].caller = caller
            /\ log[Len(log)].name = "simulate_celery_latency"
            /\ log[Len(log)].stored # None
         THEN log[Len(log)].stored
         ELSE OwnLatest(SubSeq(log, 1, Len(log) - 1), caller)

\* _latest_simulation after a call that assigns it before simulation.run().
StoredBeforeRun(latest, simulation, run_raises) == Some(simulation)
\* _latest_simulation after simulate_celery_latency: assigned once run() has
\* returned, left alone when run() raised.
StoredAfterRun(latest, simulation, run_raises) ==
    IF run_raises THEN latest ELSE Some(simulation)

\* simulate_celery_latency(...) called by one caller. get_summary_stats
\* raises on the missing column whatever the table holds.
SimulateCeleryLatency ==
    /\ Len(tool.log) < MaxToolCalls
    /\ \E caller \in Callers, service_time \in ToolServiceTimes,
          duration \in ToolDurations :
         LET simulation == [id |-> tool.runs + 1, caller |-> caller,
                            service_time |-> service_time,
                            duration |-> TrafficLength(duration)]
             run_raises == ToolRunRaises(service_time, duration)
             latest == StoredAfterRun(tool.latest_simulation, simulation,
                                      run_raises)
         IN  tool' = [tool EXCEPT
                 !.runs = @ + 1,
                 !.latest_simulation = latest,
                 !.log = Append(@,
                    [caller |-> caller,
                     name |-> "simulate_celery_latency",
                     args |-> [service_time |-> service_time,
                               duration |-> duration],
                     stored |-> IF run_raises THEN None ELSE Some(simulation),
                     shown |-> None,
                     own |-> None,
                     returned |-> None,
                     raised |-> IF run_raises THEN "ZeroDivisionError"
                                ELSE SummaryStats(<<>>).raised])]
    /\ UNCHANGED <<scaler, calls, clm>>
    /\ UNCHANGED engineVars

\* get_simulation_plot() called by one caller.
GetSimulationPlot ==
    /\ Len(tool.log) < MaxToolCalls
    /\ \E caller \in Callers :
         tool' = [tool EXCEPT
             !.log = Append(@,
                [caller |-> caller,
                 name |-> "get_simulation_plot",
                 args |-> None,
                 stored |-> None,
                 shown |-> tool.latest_simulation,
                 own |-> OwnLatest(tool.log, caller),
                 returned |->
                     IF tool.latest_simulation = None
                     THEN Some(<<"No simulation has been run yet">>)
                     ELSE Some(<<"data:image/png;base64">>),
                 raised |-> ""])]
    /\ UNCHANGED <<scaler, calls, clm>>
    /\ UNCHANGED engineVars

\* The keys ZoneInfo finds, and the keys it rejects with ValueError because
\* they are absolute or not normalized relative paths; it raises
\* ZoneInfoNotFoundError for every other key.
KnownZones == {"UTC", "US/Pacific"}
MalformedKeys == {"../UTC"}
ZoneInfoLookup(key) ==
    IF key \in MalformedKeys THEN "ValueError"
    ELSE IF key \in KnownZones THEN ""
    ELSE "ZoneInfoNotFoundError"

\* The timezone argument of current_datetime: None or a name.
Timezones ==
    {None, Some("US/Pacific"), Some("InvalidZone"), Some("../UTC")}

\* current_datetime(timezone=...): the now() of the clock is left out of the
\* value, only the zone of the ISO string is kept.
CurrentDatetimeCall(timezone) ==
    IF timezone # None /\ timezone # Some("")
    THEN IF ZoneInfoLookup(timezone[1]) = "ZoneInfoNotFoundError"
         THEN Returns(<<"Unknown timezone", timezone[1]>>)
         ELSE IF ZoneInfoLookup(timezone[1]) # ""
         THEN Raises(ZoneInfoLookup(timezone[1]))
         ELSE Returns(<<"isoformat", timezone[1]>>)
    ELSE Returns(<<"isoformat", "UTC">>)

\* current_datetime(...) called by one caller.
CurrentDatetime ==
    /\ Len(tool.log) < MaxToolCalls
    /\ \E caller \in Callers, timezone \in Timezones :
         tool' = [tool EXCEPT
             !.log = Append(@,
                [caller |-> caller,
                 name |-> "current_datetime",
                 args |-> [timezone |-> timezone],
                 stored |-> None,
                 shown |-> None,
                 own |-> None,
                 returned |-> CurrentDatetimeCall(timezone).value,
                 raised |-> CurrentDatetimeCall(timezone).raised])]
    /\ UNCHANGED <<scaler, calls, clm>>
    /\ UNCHANGED engineVars

InitTools ==
    /\ tool = NoTool
    /\ clm = NoModel
    /\ scaler = NewWorkerScaling(DefaultStartupDelay)
    /\ calls = <<>>
    /\ NoSimulation

NextTools == SimulateCeleryLatency \/ GetSimulationPlot \/ CurrentDatetime

SpecTools == InitTools /\ [][NextTools]_vars

\* ================================================================== claims
\* Sum of a column over rows 1..t of the table.
RECURSIVE ColumnSum(_, _)
ColumnSum(column, t) ==
    IF t = 0 THEN 0 ELSE column[t] + ColumnSum(column, t - 1)

\* Rows of the table written by completed ticks.
DoneRows == IF pc \in {"constructed", "done"} THEN 1..i ELSE {}

\* C1: conservation. At the end of every tick t, in_queue[t] + in_progress[t]
\* + the sum of completed[0..t] equals the sum of arrivals[0..t], for every
\* positive service_time (non-integer values below 1 included) and every
\* worker-count sequence.
Conservation ==
    \A t \in DoneRows :
        df[t].in_queue + df[t].in_progress
            + ColumnSum([r \in DOMAIN df |-> df[r].completed], t)
        = ColumnSum([r \in DOMAIN df |-> df[r].arrivals], t)

\* C2: FIFO admission. Jobs are appended to in_progress in strictly
\* increasing queue_position order over the whole run; the waiting queue is
\* ordered by increasing queue_position front to back; jobs leave it only
\* from the front; no job is admitted at a tick while a job with a smaller
\* queue_position is still waiting.
FIFOState ==
    /\ \A a, b \in DOMAIN admitted :
         a < b => admitted[a].msg.queue_position < admitted[b].msg.queue_position
    /\ \A a, b \in DOMAIN message_queue :
         a < b => message_queue[a].queue_position < message_queue[b].queue_position
    /\ \A a \in DOMAIN admitted, q \in DOMAIN message_queue :
         admitted[a].msg.queue_position < message_queue[q].queue_position

LeavesFromFront ==
    (pc = "constructed" /\ run_no' = run_no) =>
        \E k \in 0..Len(message_queue) :
            /\ Len(message_queue') >= Len(message_queue) - k
            /\ SubSeq(message_queue', 1, Len(message_queue) - k)
                 = SliceFrom(message_queue, k)
            /\ \A m \in 1..k :
                 \E a \in DOMAIN admitted' :
                    /\ admitted'[a].msg = message_queue[m]
                    /\ admitted'[a].tick = i

FIFOAdmission == []FIFOState /\ [][LeavesFromFront]_vars

\* C2 witness: a job that waited is admitted from the queue at a later tick
\* while jobs that arrived at that tick are queued behind the rest.
FIFOAdmissionWitness ==
    /\ pc = "constructed"
    /\ \E a \in DOMAIN admitted :
         /\ admitted[a].tick > admitted[a].msg.arrival_time
         /\ \E q \in DOMAIN message_queue :
               message_queue[q].arrival_time = admitted[a].tick
    /\ \E q \in DOMAIN message_queue : message_queue[q].arrival_time < i - 1

\* C3: capacity bound. At the end of every tick the number of jobs in
\* in_progress is at most the worker count returned for that tick.
CapacityBound ==
    \A t \in DoneRows : df[t].in_progress <= df[t].num_workers

\* C4: debounce. If target_workers increases at a call with seconds = T and at
\* a later call with seconds < T + startup_delay the threshold target is
\* lower than target_workers, every call from T up to and including that
\* later call returns the current_workers of before T.
Debounce ==
    \A k \in DOMAIN calls : \A j \in DOMAIN calls :
        ( /\ k < j
          /\ calls[k].after.target_workers > calls[k].before.target_workers
          /\ calls[j].seconds < calls[k].seconds + scaler.startup_delay
          /\ calls[j].new_target < calls[j].before.target_workers )
        => \A m \in k..j : calls[m].ret = calls[k].before.current_workers

\* C5: same-tick scale-down. On every call whose threshold target is lower
\* than the stored target_workers, the call returns that target and leaves
\* target_workers = current_workers = that target.
ScaleDownSameTick ==
    \A k \in DOMAIN calls :
        calls[k].new_target < calls[k].before.target_workers
        => /\ calls[k].ret = calls[k].new_target
           /\ calls[k].after.target_workers = calls[k].new_target
           /\ calls[k].after.current_workers = calls[k].new_target

\* C5 witness: a scale-down that lowers current_workers.
ScaleDownSameTickWitness ==
    \E k \in DOMAIN calls :
        /\ calls[k].new_target < calls[k].before.target_workers
        /\ calls[k].new_target < calls[k].before.current_workers
        /\ calls[k].ret = calls[k].new_target

\* The timer is set by call k, at S = calls[k].seconds.
TimerSetAt(k) ==
    /\ calls[k].before.scale_up_time = None
    /\ calls[k].new_target > calls[k].before.target_workers

\* No call after k up to j computes a threshold target below target_workers.
NoLowerTarget(k, j) ==
    \A m \in (k + 1)..j : calls[m].new_target >= calls[m].before.target_workers

\* The largest threshold target computed by calls k..j.
MaxNewTarget(k, j) ==
    CHOOSE x \in {calls[m].new_target : m \in k..j} :
        \A y \in {calls[m].new_target : m \in k..j} : x >= y

\* Call j is the first call from k on with seconds >= S + startup_delay.
FirstDue(k, j) ==
    /\ calls[j].seconds >= calls[k].seconds + scaler.startup_delay
    /\ j > k => calls[j - 1].seconds < calls[k].seconds + scaler.startup_delay

\* C6: scale-up commit. Once the timer is set at tick S and no later call
\* computes a lower threshold target, every call with seconds < S +
\* startup_delay returns the pre-scale-up current_workers, and the first call
\* with seconds >= S + startup_delay returns target_workers and clears the
\* timer.
ScaleUpCommit ==
    \A k \in DOMAIN calls : \A j \in k..Len(calls) :
        (TimerSetAt(k) /\ NoLowerTarget(k, j))
        => /\ calls[j].seconds < calls[k].seconds + scaler.startup_delay
                => /\ calls[j].ret = calls[k].before.current_workers
                   /\ calls[j].after.scale_up_time = Some(calls[k].seconds)
           /\ FirstDue(k, j)
                => /\ calls[j].ret = calls[j].after.target_workers
                   /\ calls[j].ret = MaxNewTarget(k, j)
                   /\ calls[j].after.scale_up_time = None

\* C6 witness: a timer set at one call and committed by a later call.
ScaleUpCommitWitness ==
    \E k \in DOMAIN calls : \E j \in (k + 1)..Len(calls) :
        /\ TimerSetAt(k)
        /\ NoLowerTarget(k, j)
        /\ FirstDue(k, j)
        /\ calls[j - 1].ret = calls[k].before.current_workers
        /\ calls[j].ret > calls[k].before.current_workers

\* C7: the timer is not reset. When a call sees a threshold target above
\* target_workers while scale_up_time is set, the target branch keeps
\* scale_up_time and raises only target_workers (the call ends with the timer
\* at its earlier value, or cleared by the commit that was due); the current
\* tick is assigned to scale_up_time only when it was unset.
TimerNotReset ==
    \A k \in DOMAIN calls :
        /\ ( /\ calls[k].new_target > calls[k].before.target_workers
             /\ calls[k].before.scale_up_time # None )
           => /\ Retarget(calls[k].before, calls[k].new_target, calls[k].seconds)
                    = [calls[k].before EXCEPT
                          !.target_workers = calls[k].new_target]
              /\ calls[k].after.target_workers = calls[k].new_target
              /\ calls[k].after.scale_up_time =
                    IF calls[k].seconds >= calls[k].before.scale_up_time[1]
                                              + scaler.startup_delay
                    THEN None ELSE calls[k].before.scale_up_time
        /\ calls[k].after.scale_up_time = Some(calls[k].seconds)
           => calls[k].before.scale_up_time = None

\* C7 witness: a second increase while the timer runs, which stays running.
TimerNotResetWitness ==
    \E k \in DOMAIN calls :
        /\ calls[k].new_target > calls[k].before.target_workers
        /\ calls[k].before.scale_up_time # None
        /\ calls[k].after.scale_up_time = calls[k].before.scale_up_time
        /\ calls[k].seconds > calls[k].before.scale_up_time[1]

\* C8: scenario D. WorkerScaling(startup_delay=20) with a queue length below
\* 10 on ticks 0..4 and 60 on ticks 5..25 returns 10 on ticks 0..24 and 45 at
\* tick 25.
ScenarioD ==
    \A k \in DOMAIN calls :
        calls[k].ret = IF calls[k].seconds <= 24 THEN 10 ELSE 45

\* C8 witness: the call of tick 25 has been made.
ScenarioDWitness ==
    /\ Len(calls) = 26
    /\ calls[26].seconds = 25
    /\ calls[26].queue_length = 60
    /\ calls[26].ret = 45

\* The run is scenario C: its arrivals, service_time 1, 2 workers at every tick.
IsScenarioC ==
    /\ arrival_rate = ScenarioCArrivals
    /\ params.service_time = <<1, 1>>
    /\ params.worker_scaling_func =
          TableFunc([t \in 1..Len(ScenarioCArrivals) |-> 2])

\* C9: scenario C. The recorded (in_queue, in_progress, completed) is (3,2,0)
\* at tick 0, (1,2,2) at tick 1, (0,1,2) at tick 2, (0,0,1) at tick 3 and
\* (0,0,0) at ticks 4..9.
ScenarioC ==
    IsScenarioC =>
        /\ ~(pc = "raised" /\ error = "ZeroDivisionError")
        /\ \A t \in DoneRows :
             <<df[t].in_queue, df[t].in_progress, df[t].completed>>
                = ScenarioCRows[t]

\* C9 witness: the scenario C run has returned its ten rows.
ScenarioCWitness ==
    /\ IsScenarioC
    /\ pc = "done"
    /\ i = Len(ScenarioCArrivals)
    /\ df[2].completed = 2

\* C10: determinism. A second CelerySimulation built from the same params
\* (the same policy instance included) and the same arrivals returns a table
\* equal to the first run's in every column of every row.
Determinism ==
    (run_no = 2 /\ pc = "done") => df = first_df

\* C10 witness: a second run has returned whose policy instance was left
\* scaled up by the first run.
DeterminismWitness ==
    /\ run_no = 2
    /\ pc = "done"
    /\ params.worker_scaling_func = WorkerScalingFunc
    /\ Len(first_df) > 1
    /\ first_df[Len(first_df)].num_workers > 10
    /\ df[1].num_workers = 10

\* C11: degenerate worker count. If the scaling function returns 0 workers at
\* some tick, run() fails at that tick with a descriptive error naming the
\* tick, never with a bare division by zero.
ZeroWorkersGuarded ==
    \A k \in DOMAIN calls :
        calls[k].ret = 0
        => /\ pc = "raised"
           /\ i = calls[k].seconds
           /\ error \notin {"", "ZeroDivisionError", "KeyError"}

\* C12: constructing CelerySimulation with service_time <= 0 or
\* initial_workers <= 0 fails at construction time, before any tick executes.
BadConfigRejected ==
    (params.service_time[1] <= 0 \/ params.initial_workers <= 0)
    => \/ pc = "new"
       \/ /\ pc = "raised"
          /\ attrs = AttrsBeforeValidation
          /\ calls = <<>>
          /\ i = 0

\* C13: an arrival sequence whose length differs from params.duration makes
\* the constructor raise before the table, the queue or the in-progress list
\* are created and before any tick executes.
LengthMismatchRaises ==
    /\ (Len(arrival_rate) # params.duration /\ pc # "new")
       => /\ pc = "raised"
          /\ error = "ValueError"
          /\ attrs = AttrsBeforeValidation
          /\ calls = <<>>
          /\ i = 0
    /\ error = "ValueError" => Len(arrival_rate) # params.duration

\* C13 witness: the constructor has raised on a short arrival sequence.
LengthMismatchRaisesWitness ==
    /\ pc = "raised"
    /\ error = "ValueError"
    /\ Len(arrival_rate) = params.duration - 1
    /\ params.duration > 1

\* C14: run() terminates after exactly duration ticks with one row per tick
\* 0..duration-1, in tick order, for every arrival sequence and every scaling
\* function that returns a positive worker count.
ExactlyDurationTicks ==
    ( /\ \/ pc = "done"
         \/ pc = "raised" /\ error = "ZeroDivisionError"
      /\ \A k \in DOMAIN calls : calls[k].ret > 0 )
    => /\ pc = "done"
       /\ i = params.duration
       /\ Len(calls) = params.duration
       /\ Len(df) = params.duration
       /\ \A t \in DOMAIN df : df[t].timestamp = t - 1

\* C15: after run() has completed, get_summary_stats returns without raising
\* the mean and max of in_queue, the mean and max of utilization, the total
\* of completed and the mean and max wait time.
SummaryAfterRun ==
    (stats.called /\ stats.run_done)
    => /\ stats.raised = ""
       /\ stats.value.total_completed = SumSeq(Column(df, "completed"))
       /\ stats.value.max_queue_length = SeqMax(Column(df, "in_queue"))

LoggingPureObserver ==
    (run_no = 2 /\ pc \in {"done", "raised"})
    => /\ pc = "done"
       /\ df = first_df

\* C19: is_stable is true exactly when arrival_rate * service_time <
\* num_workers; at utilization exactly 1 the model is reported unstable.
IsStableExact ==
    (clm.pc = "constructed" /\ clm.last.method = "is_stable")
    => /\ clm.last.raised = ""
       /\ clm.last.value =
            Some(clm.arrival_rate[1] * clm.service_time[1]
                 < clm.num_workers * clm.arrival_rate[2] * clm.service_time[2])

\* C19 witness: is_stable has returned False at utilization exactly 1.
IsStableExactWitness ==
    /\ clm.pc = "constructed"
    /\ clm.last.method = "is_stable"
    /\ clm.last.value = Some(FALSE)
    /\ clm.arrival_rate[1] * clm.service_time[1]
       = clm.num_workers * clm.arrival_rate[2] * clm.service_time[2]

\* C20: whenever the model is unstable (utilization >= 1),
\* average_queue_length, average_waiting_time and average_total_time each
\* return None without raising.
UnstableReturnsNone ==
    ( /\ clm.pc = "constructed"
      /\ clm.arrival_rate[1] * clm.service_time[1]
         >= clm.num_workers * clm.arrival_rate[2] * clm.service_time[2]
      /\ clm.last.method \in ModelMethods \ {"is_stable"} )
    => /\ clm.last.raised = ""
       /\ clm.last.value = None

\* C20 witness: average_queue_length has returned None on a model whose
\* utilization is above 1.
UnstableReturnsNoneWitness ==
    /\ clm.pc = "constructed"
    /\ clm.arrival_rate[1] * clm.service_time[1]
       > clm.num_workers * clm.arrival_rate[2] * clm.service_time[2]
    /\ clm.last = [method |-> "average_queue_length", raised |-> "",
                   value |-> None]

\* C18: run isolation. When two callers interleave simulate_celery_latency
\* and get_simulation_plot, the plot a caller obtains is of that caller's own
\* most recent run, never of a run started by the other caller.
RunIsolation ==
    \A k \in DOMAIN tool.log :
        tool.log[k].name = "get_simulation_plot"
        => /\ tool.log[k].shown = tool.log[k].own
           /\ tool.log[k].shown # None
              => tool.log[k].shown[1].caller = tool.log[k].caller

\* C21: for a validly constructed model with arrival_rate = 0,
\* average_waiting_time and average_total_time return None rather than
\* raising or returning a number.
ZeroRateUndefined ==
    ( /\ clm.pc = "constructed"
      /\ clm.arrival_rate[1] = 0
      /\ clm.last.method \in {"average_waiting_time", "average_total_time"} )
    => /\ clm.last.raised = ""
       /\ clm.last.value = None

\* C22: constructing CeleryLatencyModel fails if and only if num_workers <= 0,
\* arrival_rate < 0 or service_time <= 0, and it fails at construction: no
\* method of an invalid model is ever called.
ConstructionValidates ==
    /\ clm.pc = "raised"
       => /\ clm.error = "ValueError"
          /\ clm.last = NoCall
          /\ \/ clm.num_workers <= 0
             \/ clm.arrival_rate[1] < 0
             \/ clm.service_time[1] <= 0
    /\ clm.pc = "constructed"
       => /\ clm.num_workers > 0
          /\ clm.arrival_rate[1] >= 0
          /\ clm.service_time[1] > 0

\* C22 witness: the construction failed on a negative arrival_rate alone.
ConstructionValidatesWitness ==
    /\ clm.pc = "raised"
    /\ clm.error = "ValueError"
    /\ clm.num_workers > 0
    /\ clm.service_time[1] > 0
    /\ clm.arrival_rate[1] < 0

\* C23: for every unstable model, the number of additional workers in the
\* instability explanation is the minimum k such that a model with
\* num_workers + k workers and the same arrival_rate and service_time is
\* stable.
MinimumAdditionalWorkers ==
    ( /\ clm.pc = "constructed"
      /\ clm.last.method = "print_metrics"
      /\ clm.last.raised = ""
      /\ ~IsStable(clm) )
    => LET k == clm.last.value[1].additional_workers
       IN  /\ k >= 0
           /\ IsStable([clm EXCEPT !.num_workers = @ + k])
           /\ k > 0 => ~IsStable([clm EXCEPT !.num_workers = @ + k - 1])

\* C24: a simulation started through simulate_celery_latency with duration D
\* advances exactly D ticks and its tick table has D rows.
TrafficHasRequestedLength ==
    \A k \in DOMAIN tool.log :
        (tool.log[k].name = "simulate_celery_latency"
         /\ tool.log[k].stored # None)
        => tool.log[k].stored[1].duration = tool.log[k].args.duration

\* C25: current_datetime reports a bad timezone as a value. For an unknown
\* timezone name it returns 'Unknown timezone: <name>' instead of raising,
\* and with no timezone it returns an ISO datetime in UTC.
BadTimezoneIsValue ==
    \A k \in DOMAIN tool.log :
        tool.log[k].name = "current_datetime"
        => LET timezone == tool.log[k].args.timezone
           IN  /\ tool.log[k].raised = ""
               /\ timezone = None
                  => tool.log[k].returned = Some(<<"isoformat", "UTC">>)
               /\ (timezone # None /\ timezone[1] \notin KnownZones)
                  => tool.log[k].returned
                     = Some(<<"Unknown timezone", timezone[1]>>)

\* The simulation of the last simulate_celery_latency call in the log whose
\* run() returned, None when there is no such call.
RECURSIVE LastFinishedRun(_)
LastFinishedRun(log) ==
    IF log = <<>> THEN None
    ELSE IF log[Len(log)].name = "simulate_celery_latency"
            /\ log[Len(log)].raised # "ZeroDivisionError"
         THEN Some([id |-> Cardinality({j \in DOMAIN log :
                              log[j].name = "simulate_celery_latency"}),
                    caller |-> log[Len(log)].caller,
                    service_time |-> log[Len(log)].args.service_time,
                    duration |-> TrafficLength(log[Len(log)].args.duration)])
         ELSE LastFinishedRun(SubSeq(log, 1, Len(log) - 1))

\* C30: get_simulation_plot returns 'No simulation has been run yet' exactly
\* as long as no simulate_celery_latency call has finished its run(); after
\* that every call plots the simulation of the most recent
\* simulate_celery_latency call whose run() finished.
PlotsLatestRun ==
    \A k \in DOMAIN tool.log :
        tool.log[k].name = "get_simulation_plot"
        => LET finished == LastFinishedRun(SubSeq(tool.log, 1, k - 1))
           IN  /\ tool.log[k].raised = ""
               /\ finished = None
                  <=> tool.log[k].returned
                      = Some(<<"No simulation has been run yet">>)
               /\ tool.log[k].shown = finished

\* C30 witness: a plot was taken after a run that finished and a later run
\* that raised, and it shows the finished one.
PlotsLatestRunWitness ==
    /\ Len(tool.log) = 3
    /\ tool.log[1].name = "simulate_celery_latency"
    /\ tool.log[1].stored # None
    /\ tool.log[2].name = "simulate_celery_latency"
    /\ tool.log[2].raised = "ZeroDivisionError"
    /\ tool.log[3].name = "get_simulation_plot"
    /\ tool.log[3].shown = tool.log[1].stored

\* C26: completions step. At tick 0 no job is removed from in_progress and
\* completed is recorded as 0; at every tick > 0 exactly
\* floor(len(in_progress) / service_time) jobs are removed, they are the
\* front of in_progress, and the recorded completed value equals the number
\* of jobs actually removed.
CompletionsStep ==
    [][ (pc = "constructed" /\ i' = i + 1)
        => LET recorded == df'[i + 1].completed
               kept == {k \in DOMAIN in_progress :
                           \E j \in DOMAIN in_progress' :
                               in_progress'[j] = in_progress[k]}
               removed == Len(in_progress) - Cardinality(kept)
           IN  /\ i = 0 => (recorded = 0 /\ removed = 0)
               /\ i > 0 =>
                    /\ recorded = Completions(Len(in_progress),
                                              params.service_time)
                    /\ recorded = removed
                    /\ kept = (removed + 1)..Len(in_progress)
                    /\ \A k \in kept : in_progress'[k - removed] = in_progress[k]
      ]_vars

\* C27: the scaling function is consulted exactly once per tick, with elapsed
\* equal to the tick index (0, 1, ... in order) and queue_length equal to the
\* queue length left at the end of the previous tick (0 at tick 0); the
\* num_workers recorded for the tick and the capacity used for admission are
\* the value it returned.
ScalingConsultedPerTick ==
    pc \in {"constructed", "done"}
    => /\ Len(calls) = i
       /\ \A k \in DOMAIN calls :
            /\ calls[k].seconds = k - 1
            /\ calls[k].queue_length = IF k = 1 THEN 0 ELSE df[k - 1].in_queue
            /\ df[k].num_workers = calls[k].ret
            /\ df[k].in_queue > 0 => df[k].in_progress >= calls[k].ret
            /\ (\E a \in DOMAIN admitted : admitted[a].tick = k - 1)
               => df[k].in_progress <= calls[k].ret

\* C27 witness: a completed run in which the function was consulted with a
\* non-empty queue and returned different worker counts at different ticks.
ScalingConsultedPerTickWitness ==
    /\ pc = "done"
    /\ Len(calls) = params.duration
    /\ \E k \in DOMAIN calls :
         /\ calls[k].queue_length > 0
         /\ calls[k].ret # calls[1].ret
         /\ calls[k].ret # params.initial_workers

\* C28: the wait-time metrics of a tick are taken over the jobs still queued
\* at the end of that tick: min <= mean <= max, max_wait_time is (tick -
\* arrival tick) of the job at the front of the queue, min_wait_time that of
\* the job at the back, and all three are 0 when the queue is empty.
WaitMetricsOverQueue ==
    (pc \in {"constructed", "done"} /\ i > 0)
    => /\ \A k \in 1..i :
            /\ df[k].min_wait_time * df[k].mean_wait_time[2]
               <= df[k].mean_wait_time[1]
            /\ df[k].mean_wait_time[1]
               <= df[k].max_wait_time * df[k].mean_wait_time[2]
            /\ df[k].in_queue = 0
               => /\ df[k].min_wait_time = 0
                  /\ df[k].mean_wait_time = Zero
                  /\ df[k].max_wait_time = 0
       /\ df[i].in_queue = Len(message_queue)
       /\ message_queue # <<>>
          => /\ df[i].max_wait_time
                = (i - 1) - message_queue[1].arrival_time
             /\ df[i].min_wait_time
                = (i - 1) - message_queue[Len(message_queue)].arrival_time
             /\ df[i].mean_wait_time
                = Frac(SumSeq([k \in DOMAIN message_queue |->
                                 (i - 1) - message_queue[k].arrival_time]),
                       Len(message_queue))

\* C28 witness: a tick ended with jobs of different arrival ticks in the
\* queue, the newest of which has waited a tick.
WaitMetricsOverQueueWitness ==
    /\ pc = "constructed"
    /\ i > 0
    /\ Len(message_queue) > 1
    /\ df[i].min_wait_time > 0
    /\ df[i].max_wait_time > df[i].min_wait_time
    /\ df[i].min_wait_time * df[i].mean_wait_time[2] < df[i].mean_wait_time[1]

\* C29: a scale-down cancels any in-flight scale-up. After a call that lowers
\* the target, scale_up_time is unset, so no commit happens from the
\* cancelled timer, and a later increase begun at a call with seconds = S'
\* takes effect no earlier than S' + startup_delay.
ScaleDownCancels ==
    \A k \in DOMAIN calls :
        calls[k].new_target < calls[k].before.target_workers
        => /\ calls[k].after.scale_up_time = None
           /\ \A j \in (k + 1)..Len(calls) :
                calls[j].ret > calls[j].before.current_workers
                => \E s \in (k + 1)..j :
                     /\ calls[s].before.scale_up_time = None
                     /\ calls[s].new_target > calls[s].before.target_workers
                     /\ calls[j].seconds
                        >= calls[s].seconds + scaler.startup_delay

\* The three relations between scale_up_time, current_workers and
\* target_workers of one WorkerScaling instance.
ControllerState(s) ==
    /\ (s.scale_up_time = None) <=> (s.current_workers = s.target_workers)
    /\ (s.scale_up_time # None) => (s.current_workers < s.target_workers)
    /\ s.current_workers <= s.target_workers

\* C31: controller state invariant of WorkerScaling. After every call,
\* scale_up_time is unset if and only if current_workers = target_workers,
\* while scale_up_time is set current_workers < target_workers, and
\* current_workers never exceeds target_workers.
ControllerStateInvariant ==
    /\ ControllerState(scaler)
    /\ \A k \in DOMAIN calls : ControllerState(calls[k].after)

\* C31 witness: a call has left the timer set with the pool below its
\* target, a later call has committed the increase, and a still later call
\* has scaled down.
ControllerStateInvariantWitness ==
    \E k, j, m \in DOMAIN calls :
        /\ k < j /\ j < m
        /\ calls[k].after.scale_up_time # None
        /\ calls[k].after.current_workers < calls[k].after.target_workers
        /\ calls[j].before.scale_up_time # None
        /\ calls[j].after.scale_up_time = None
        /\ calls[j].after.current_workers = 45
        /\ calls[m].new_target < calls[m].before.target_workers
        /\ scaler = calls[Len(calls)].after

\* C32: work conservation. At the end of every tick of run(), if the waiting
\* queue is non-empty then in_progress holds at least current_workers jobs:
\* no job waits while a worker slot is free.
WorkConservation ==
    (pc \in {"constructed", "done"} /\ i > 0)
    => /\ message_queue # <<>> => Len(in_progress) >= current_workers
       /\ \A k \in 1..i :
            df[k].in_queue > 0 => df[k].in_progress >= df[k].num_workers

\* C32 witness: a tick has ended that admitted a job from the queue, filled
\* every worker slot and left jobs waiting.
WorkConservationWitness ==
    /\ pc = "constructed"
    /\ i > 1
    /\ message_queue # <<>>
    /\ current_workers > 0
    /\ Len(in_progress) = current_workers
    /\ \E a \in DOMAIN admitted :
         /\ admitted[a].tick = i - 1
         /\ admitted[a].msg.arrival_time < i - 1

\* The arrival sequence is zero from the next tick onward.
ArrivalsOver ==
    /\ pc = "constructed"
    /\ i > 0
    /\ \A t \in (i + 1)..Len(df) : df[t].arrivals = 0

\* Ticks that serve the jobs present one batch of current_workers after the
\* other, each batch for service_time rounded up, and one more tick.
TicksToDrain ==
    ((Len(message_queue) + Len(in_progress) + current_workers - 1)
        \div current_workers) * Ceil(params.service_time) + 1

\* C33: drain liveness. With a worker count that stays positive, once the
\* arrival sequence is zero from some tick onward and the ticks left are
\* enough to serve the jobs present, the queue eventually becomes empty and
\* in_progress eventually becomes empty.
DrainLiveness ==
    (ArrivalsOver /\ current_workers > 0 /\ Len(df) - i >= TicksToDrain)
    ~> (message_queue = <<>> /\ in_progress = <<>>)

WorkerScalingPositive ==
    params.worker_scaling_func = WorkerScalingFunc
    => /\ \A k \in DOMAIN calls :
            /\ calls[k].ret \in {10, 30, 45}
            /\ calls[k].after.current_workers \in {10, 30, 45}
       /\ pc \in {"constructed", "done", "raised"} /\ Len(calls) > 0
          => current_workers > 0
       /\ pc \in {"constructed", "done"}
          => \A k \in 1..i : /\ df[k].num_workers \in {10, 30, 45}
                              /\ df[k].utilization[2] > 0
       /\ (pc = "raised" /\ error = "ZeroDivisionError")
          => params.service_time = Zero

\* C35 witness: a run driven by WorkerScaling has returned in which the
\* policy returned each of 10, 30 and 45.
WorkerScalingPositiveWitness ==
    /\ params.worker_scaling_func = WorkerScalingFunc
    /\ pc = "done"
    /\ \A v \in {10, 30, 45} :
         \E k \in DOMAIN calls : calls[k].ret = v /\ df[k].num_workers = v

====
